---- MODULE Spec2Model ----
(***************************************************************************)
(* Model of src/ChiSquareTestOfHomogeneity.py: the class                   *)
(* ChiSquareTestOfHomogeneity, its constructor and the run_test pipeline   *)
(* (generate_comp_table, generate_e_table, the chi-square steps and        *)
(* print_results).                                                         *)
(*                                                                         *)
(* The source is Python 2 (print statements, no __future__ import).  The   *)
(* cells of comp_table are int64 counts, so the "/" of calculate_E is the  *)
(* classic division of two numpy int64 scalars: it floors, and a zero      *)
(* divisor gives 0 with a warning, never an exception.  The "/" between    *)
(* the two DataFrames in run_test is pandas' element-wise true division:   *)
(* x/0 is inf for x > 0 and NaN for x = 0.                                 *)
(*                                                                         *)
(* A float is modelled as a pair <<n, d>>: a reduced fraction when d > 0,  *)
(* <<1, 0>> for inf and <<0, 0>> for NaN.                                  *)
(***************************************************************************)
EXTENDS Integers, Sequences, FiniteSets, TLC

VARIABLES args, env, self, pc, error, stdout

vars == <<args, env, self, pc, error, stdout>>

(* ------------------------------ bounds --------------------------------- *)

MaxRecords == 3

MaxLabels == 3

MaxRuns == 2

(* ------------------------- program constants --------------------------- *)

\* alpha=0.01 and critical_value=6.635, the keyword defaults of __init__
DefaultAlpha == <<1, 100>>

DefaultCrit == <<6635, 1000>>

(* ------------------------------ floats --------------------------------- *)

RECURSIVE GCD(_, _)
GCD(a, b) == IF b = 0 THEN a ELSE GCD(b, a % b)

Norm(n, d) == LET g == GCD(n, d) IN <<n \div g, d \div g>>

Inf == <<1, 0>>

NaN == <<0, 0>>

Zero == <<0, 1>>

IsNaN(x) == x = NaN

IsInf(x) == x = Inf

IsFinite(x) == x[2] > 0

\* float addition
FAdd(x, y) ==
    IF IsNaN(x) \/ IsNaN(y) THEN NaN
    ELSE IF IsInf(x) \/ IsInf(y) THEN Inf
    ELSE Norm(x[1] * y[2] + y[1] * x[2], x[2] * y[2])

\* x > y on floats; any comparison with NaN is false
FGreater(x, y) ==
    IF IsNaN(x) \/ IsNaN(y) THEN FALSE
    ELSE IF IsInf(x) THEN ~IsInf(y)
    ELSE IF IsInf(y) THEN FALSE
    ELSE x[1] * y[2] > y[1] * x[2]

(* ------------------------------ inputs --------------------------------- *)

Labels == {"A", "B"}

SeqsUpTo(S, n) == UNION {[1..k -> S] : k \in 0..n}

\* Scenario of the documentation: 6 of 10 and 2 of 10 with the condition.
ScenarioA == [i \in 1..10 |-> IF i <= 6 THEN 1 ELSE 0]

ScenarioB == [i \in 1..10 |-> IF i <= 2 THEN 1 ELSE 0]

\* The condition column of a population dataset: 0/1 records.
Datasets == SeqsUpTo({0, 1}, MaxRecords) \cup {ScenarioA, ScenarioB}

NoArg == <<>>

\* critical_value arguments; NoArg leaves the keyword default in effect.
CritArgs == {NoArg, <<2, 1>>}

AlphaArgs == {NoArg, <<5, 100>>}

Conditions == {"Survived"}

\* What Series.sum() gives for a row whose cells are all NaN: NaN in the
\* pandas releases before 0.22 without bottleneck, 0 otherwise.
AllNaNSums == {NaN, Zero}

(* ------------------------------ __init__ ------------------------------- *)

Range(s) == {s[i] : i \in DOMAIN s}

NoAttrs == [a \in {} |-> 0]

Init ==
    /\ args \in [population_labels : SeqsUpTo(Labels, MaxLabels),
                 population_datasets : Datasets \X Datasets,
                 condition : Conditions,
                 alpha : AlphaArgs,
                 critical_value : CritArgs]
    /\ env \in AllNaNSums
    /\ self = NoAttrs
    /\ pc = "new"
    /\ error = "none"
    /\ stdout = <<>>

SamePopulation_skipped(population_labels) == FALSE

TooManyPopulations(population_labels) == Len(population_labels) > 2

SamePopulation(population_labels) ==
    Cardinality(Range(population_labels)) # Len(population_labels)

\* "Not %s" % self.condition
InverseCondition(condition) == "Not " \o condition

\* ChiSquareTestOfHomogeneity(...): lines 35-45.  Line 40 stores both
\* datasets before line 41 indexes the labels, so a label list shorter than
\* two raises IndexError with the datasets already stored.
init ==
    /\ pc = "new"
    /\ IF TooManyPopulations(args.population_labels)
          \/ SamePopulation(args.population_labels)
       THEN /\ error' = "ValueError"
            /\ pc' = "raised"
            /\ self' = self
       ELSE IF Len(args.population_labels) < 2
       THEN /\ error' = "IndexError"
            /\ pc' = "raised"
            /\ self' = [pop1_data |-> args.population_datasets[1],
                        pop2_data |-> args.population_datasets[2]]
       ELSE /\ error' = error
            /\ pc' = "constructed"
            /\ self' = [pop1_data |-> args.population_datasets[1],
                        pop2_data |-> args.population_datasets[2],
                        pop1_label |-> args.population_labels[1],
                        pop2_label |-> args.population_labels[2],
                        condition |-> args.condition,
                        inverse_condition |-> InverseCondition(args.condition),
                        alpha |-> IF args.alpha = NoArg THEN DefaultAlpha
                                  ELSE args.alpha,
                        crit |-> IF args.critical_value = NoArg
                                 THEN DefaultCrit ELSE args.critical_value]
    /\ UNCHANGED <<args, env, stdout>>

(* -------------------------- observed table ----------------------------- *)

\* Series.sum() of the 0/1 condition column
RECURSIVE Sum(_)
Sum(col) == IF col = <<>> THEN 0 ELSE Head(col) + Sum(Tail(col))

\* Series.count(): the number of non-null records
Count(col) == Len(col)

calculate_condition_counts_total(pop_data) ==
    <<Sum(pop_data), Count(pop_data)>>

calculate_condition_counts(pop_data) ==
    <<Sum(pop_data), Count(pop_data) - Sum(pop_data)>>

\* The DataFrame of lines 58-66: rows pop1, pop2, Total; columns condition,
\* inverse condition, Total.
CompTable(s) ==
    LET pop1 == calculate_condition_counts(s.pop1_data)
        pop2 == calculate_condition_counts(s.pop2_data)
        pop1_condition == pop1[1]
        pop1_inverse == pop1[2]
        pop2_condition == pop2[1]
        pop2_inverse == pop2[2]
        total_condition == pop1_condition + pop2_condition
        total_inverse == pop1_inverse + pop2_inverse
        total_pop1 == Count(s.pop1_data)
        total_pop2 == Count(s.pop2_data)
    IN  (s.pop1_label :> (s.condition :> pop1_condition
                          @@ s.inverse_condition :> pop1_inverse
                          @@ "Total" :> total_pop1))
        @@ (s.pop2_label :> (s.condition :> pop2_condition
                             @@ s.inverse_condition :> pop2_inverse
                             @@ "Total" :> total_pop2))
        @@ ("Total" :> (s.condition :> total_condition
                        @@ s.inverse_condition :> total_inverse
                        @@ "Total" :> total_pop1 + total_pop2))

SetAttr(s, name, value) == (name :> value) @@ s

\* run_test, lines 100-101: the header, then the pipeline starts.
run_test ==
    /\ pc \in {"constructed", "done"}
    /\ Cardinality({i \in DOMAIN stdout : stdout[i][1] = "Results"}) < MaxRuns
    /\ stdout' = Append(stdout, <<"Chi-Square Test of Homogeneity",
                                  self.pop1_label, self.pop2_label>>)
    /\ pc' = "generate_comp_table"
    /\ UNCHANGED <<args, env, self, error>>

\* variant that consumes the first dataset while counting it
generate_comp_table_consuming ==
    /\ pc = "generate_comp_table"
    /\ self' = SetAttr(SetAttr(self, "comp_table", CompTable(self)),
                       "pop1_data",
                       IF self.pop1_data = <<>> THEN <<>>
                       ELSE Tail(self.pop1_data))
    /\ stdout' = Append(stdout, <<"Comparison Table", self'.comp_table>>)
    /\ pc' = "generate_e_table"
    /\ UNCHANGED <<args, env, error>>

generate_comp_table ==
    /\ pc = "generate_comp_table"
    /\ self' = SetAttr(self, "comp_table", CompTable(self))
    /\ stdout' = Append(stdout, <<"Comparison Table", self'.comp_table>>)
    /\ pc' = "generate_e_table"
    /\ UNCHANGED <<args, env, error>>

(* -------------------------- expected table ----------------------------- *)

\* "/" of two numpy int64 scalars under Python 2: floor division; a zero
\* divisor yields 0 (RuntimeWarning), not an exception.
IntDiv(a, b) == IF b = 0 THEN 0 ELSE a \div b

calculate_E(s, row_total, column_total) ==
    LET grand_total == s.comp_table["Total"]["Total"]
    IN  IntDiv(row_total * column_total, grand_total)

\* returns <<inverse, condition>>
calculate_E_by_pop(s, pop) ==
    LET inverse == calculate_E(s, s.comp_table[pop]["Total"],
                               s.comp_table[pop][s.inverse_condition])
        condition == calculate_E(s, s.comp_table[pop]["Total"],
                                 s.comp_table[pop][s.condition])
    IN  <<inverse, condition>>

ETable(s) ==
    LET pop1 == calculate_E_by_pop(s, s.pop1_label)
        pop2 == calculate_E_by_pop(s, s.pop2_label)
        pop1_inverse_e == pop1[1]
        pop1_condition_e == pop1[2]
        pop2_inverse_e == pop2[1]
        pop2_condition_e == pop2[2]
    IN  (s.pop1_label :> (s.condition :> pop1_condition_e
                          @@ s.inverse_condition :> pop1_inverse_e))
        @@ (s.pop2_label :> (s.condition :> pop2_condition_e
                             @@ s.inverse_condition :> pop2_inverse_e))

generate_e_table ==
    /\ pc = "generate_e_table"
    /\ self' = SetAttr(self, "e_table", ETable(self))
    /\ stdout' = Append(stdout, <<"Expected Frequency Table", self'.e_table>>)
    /\ pc' = "chi_square"
    /\ UNCHANGED <<args, env, error>>

(* ---------------------------- chi-square ------------------------------- *)

\* "/" of two integer DataFrame cells: pandas divides truly and fills the
\* zero divisors, x/0 = inf for x > 0 and 0/0 = NaN.
TrueDiv(a, b) ==
    IF b = 0 THEN (IF a = 0 THEN NaN ELSE Inf) ELSE Norm(a, b)

\* Series.sum() of a two-cell row: NaN cells are skipped.
RowSum(x, y, all_nan) ==
    IF IsNaN(x) /\ IsNaN(y) THEN all_nan
    ELSE IF IsNaN(x) THEN y
    ELSE IF IsNaN(y) THEN x
    ELSE FAdd(x, y)

\* Steps 1-4 of run_test, lines 109-119.
ChiSquare(s, all_nan) ==
    LET pops == {s.pop1_label, s.pop2_label}
        cols == {s.inverse_condition, s.condition}
        comp_wo_totals == [p \in pops |-> [c \in cols |-> s.comp_table[p][c]]]
        diff1 == [p \in pops |-> [c \in cols |->
                     comp_wo_totals[p][c] - s.e_table[p][c]]]
        diff2 == [p \in pops |-> [c \in cols |-> diff1[p][c] * diff1[p][c]]]
        diff3 == [p \in pops |-> [c \in cols |->
                     TrueDiv(diff2[p][c], s.e_table[p][c])]]
        row(p) == RowSum(diff3[p][s.inverse_condition],
                         diff3[p][s.condition], all_nan)
    IN  FAdd(row(s.pop1_label), row(s.pop2_label))

chi_square ==
    /\ pc = "chi_square"
    /\ self' = SetAttr(self, "chi_square", ChiSquare(self, env))
    /\ pc' = "print_results"
    /\ UNCHANGED <<args, env, error, stdout>>

Significant_ge(chi, crit) == FGreater(chi, crit) \/ chi = crit

\* self.chi_square > self.crit, line 94
Significant(chi, crit) == FGreater(chi, crit)

print_results ==
    /\ pc = "print_results"
    /\ stdout' = Append(stdout, <<"Results", self.chi_square, self.alpha,
                                  self.crit,
                                  Significant(self.chi_square, self.crit)>>)
    /\ pc' = "done"
    /\ UNCHANGED <<args, env, self, error>>

Next ==
    \/ init
    \/ run_test
    \/ generate_comp_table
    \/ generate_e_table
    \/ chi_square
    \/ print_results

Spec == Init /\ [][Next]_vars

(* ------------------------------ properties ----------------------------- *)

HasComp == "comp_table" \in DOMAIN self

HasE == "e_table" \in DOMAIN self

Pops == {self.pop1_label, self.pop2_label}

Outcomes == {self.condition, self.inverse_condition}

GrandTotal == self.comp_table["Total"]["Total"]

Results == {i \in DOMAIN stdout : stdout[i][1] = "Results"}

\* the homogeneity expected frequency, as a fraction
StdE(row_total, column_total, grand_total) ==
    Norm(row_total * column_total, grand_total)

\* (observed - expected)^2 / expected with expected = row*column/grand
StdTerm(observed, row_total, column_total, grand_total) ==
    LET d == observed * grand_total - row_total * column_total
    IN  Norm(d * d, grand_total * row_total * column_total)

StdDefined ==
    /\ GrandTotal # 0
    /\ \A p \in Pops : self.comp_table[p]["Total"] # 0
    /\ \A o \in Outcomes : self.comp_table["Total"][o] # 0

StdTermOf(p, o) ==
    StdTerm(self.comp_table[p][o], self.comp_table[p]["Total"],
            self.comp_table["Total"][o], GrandTotal)

StdChi ==
    FAdd(FAdd(StdTermOf(self.pop1_label, self.condition),
              StdTermOf(self.pop1_label, self.inverse_condition)),
         FAdd(StdTermOf(self.pop2_label, self.condition),
              StdTermOf(self.pop2_label, self.inverse_condition)))

IsScenario1 ==
    /\ args.population_datasets = <<ScenarioA, ScenarioB>>
    /\ args.critical_value = NoArg

\* C1: with a non-zero grand total, every expected cell equals
\* row_total[p] * column_total[o] / grand_total, column_total[o] being the
\* Total row's entry for outcome o.
C1_ExpectedIsRowTimesColumnTotal ==
    (HasE /\ GrandTotal # 0) =>
        \A p \in Pops : \A o \in Outcomes :
            self.e_table[p][o] * GrandTotal =
                self.comp_table[p]["Total"] * self.comp_table["Total"][o]

\* C2: the stored chi-square is the sum over the four cells of
\* (observed - expected)^2 / expected with the homogeneity expected
\* frequencies; for 6/4 against 2/8 it is 10/3 and, with the default critical
\* value, the verdict is False.
C2_ChiSquareIsHomogeneityStatistic ==
    (pc = "done" /\ StdDefined) =>
        /\ self.chi_square = StdChi
        /\ IsScenario1 =>
              /\ self.chi_square = <<10, 3>>
              /\ \A i \in Results : stdout[i][5] = FALSE

SameProportion ==
    /\ self.pop1_data # <<>>
    /\ self.pop2_data # <<>>
    /\ Sum(self.pop1_data) * Len(self.pop2_data) =
           Sum(self.pop2_data) * Len(self.pop1_data)

\* C3: two non-empty populations with the same proportion of condition
\* records give chi_square = 0 and a verdict of False.
C3_SameProportionGivesZero ==
    (pc = "done" /\ SameProportion) =>
        /\ self.chi_square = Zero
        /\ \A i \in Results : stdout[i][5] = FALSE

\* C4: in the observed table every row's condition and inverse cells sum to
\* the row's Total, every column's two population cells sum to the Total
\* row, and the grand total is the number of records of both populations.
C4_ObservedTableMarginals ==
    HasComp =>
        LET t == self.comp_table IN
        /\ \A r \in Pops \cup {"Total"} :
              t[r][self.condition] + t[r][self.inverse_condition] = t[r]["Total"]
        /\ \A c \in Outcomes \cup {"Total"} :
              t[self.pop1_label][c] + t[self.pop2_label][c] = t["Total"][c]
        /\ t["Total"]["Total"] = Len(args.population_datasets[1])
                                  + Len(args.population_datasets[2])

C4_Witness ==
    /\ HasComp
    /\ self.comp_table[self.pop1_label][self.condition] = 2
    /\ self.comp_table[self.pop1_label][self.inverse_condition] = 1
    /\ self.comp_table[self.pop2_label][self.condition] = 1
    /\ self.comp_table[self.pop2_label]["Total"] = 2

\* C5: with a non-zero grand total every expected cell is non-negative and
\* each population's two expected cells sum to its observed row Total (the
\* cells are integers here, so the rounding tolerance is exact equality).
C5_ExpectedRowsSumToObservedTotal ==
    (HasE /\ GrandTotal # 0) =>
        \A p \in Pops :
            /\ \A o \in Outcomes : self.e_table[p][o] >= 0
            /\ self.e_table[p][self.condition]
                  + self.e_table[p][self.inverse_condition]
               = self.comp_table[p]["Total"]

\* C6: every reported verdict is true exactly when the chi-square is strictly
\* greater than the critical value, which is 6.635 when none was supplied; a
\* chi-square equal to the critical value is not significant.
C6_VerdictIsStrictlyGreater ==
    \A i \in Results :
        LET chi == stdout[i][2]
            crit == stdout[i][4]
            verdict == stdout[i][5]
        IN  /\ chi = self.chi_square
            /\ crit = IF args.critical_value = NoArg THEN <<6635, 1000>>
                      ELSE args.critical_value
            /\ verdict \in BOOLEAN
            /\ verdict <=> \/ chi = Inf
                           \/ chi[2] > 0 /\ chi[1] * crit[2] > crit[1] * chi[2]
            /\ chi = crit => verdict = FALSE

C6_Witness ==
    \E i \in Results : stdout[i][2] = stdout[i][4] /\ stdout[i][5] = FALSE

\* C7: more than two labels, or two identical labels, make the constructor
\* raise ValueError and leave no attribute on the instance.
C7_BadLabelsRaise ==
    LET labels == args.population_labels IN
    (pc # "new" /\ (Len(labels) > 2
                    \/ (Len(labels) = 2 /\ labels[1] = labels[2]))) =>
        /\ pc = "raised"
        /\ error = "ValueError"
        /\ DOMAIN self = {}

C7_Witness ==
    /\ pc = "raised"
    /\ Len(args.population_labels) = 2
    /\ args.population_labels[1] = args.population_labels[2]

DivisionByZero ==
    \/ GrandTotal = 0
    \/ \E p \in Pops : \E o \in Outcomes : self.e_table[p][o] = 0

\* C8: no run completes with a chi-square and a verdict when the grand total
\* is zero or an expected cell is zero.
C8_NoResultOnDivisionByZero ==
    (pc = "done") => ~DivisionByZero

\* C9: the expected cell is the real quotient of the product handed to
\* calculate_E by the grand total, fractional part included.
C9_RealDivision ==
    (HasE /\ GrandTotal # 0) =>
        \A p \in Pops : \A o \in Outcomes :
            self.e_table[p][o] * GrandTotal =
                self.comp_table[p]["Total"] * self.comp_table[p][o]

\* C10: every run prints the same tables, chi-square and verdict as the runs
\* before it, and no step changes the datasets, labels, condition, alpha or
\* critical value set by the constructor.
C10_RunsRepeatAndInputsKept ==
    /\ \A i \in DOMAIN stdout : \A j \in DOMAIN stdout :
          stdout[i][1] = stdout[j][1] => stdout[i] = stdout[j]
    /\ pc \notin {"new", "raised"} =>
          /\ self.pop1_data = args.population_datasets[1]
          /\ self.pop2_data = args.population_datasets[2]
          /\ self.pop1_label = args.population_labels[1]
          /\ self.pop2_label = args.population_labels[2]
          /\ self.condition = args.condition
          /\ self.alpha = (IF args.alpha = NoArg THEN <<1, 100>> ELSE args.alpha)
          /\ self.crit = (IF args.critical_value = NoArg THEN <<6635, 1000>>
                          ELSE args.critical_value)

C10_Witness ==
    /\ Cardinality(Results) = 2
    /\ self.pop1_data = <<1, 0, 1>>
    /\ self.pop2_data = <<0, 1>>

====
